---- MODULE Spec2Model ----
(***************************************************************************)
(* A state-machine model of count_likes.py (peterVG/newsky):               *)
(* process_timeline, the bounded, cursor-paginated fetch-and-rank loop.    *)
(*                                                                         *)
(* The external atproto client (login, get_timeline, get_post_thread) and  *)
(* the wall clock are the environment: every value they can hand back is   *)
(* a nondeterministic choice from a small set.  The items of a page are    *)
(* drawn when the for loop reaches them; a page is kept as its length and  *)
(* its cursor.                                                             *)
(*                                                                         *)
(* Python values: a str is a TLA+ string (uri, cursor, handle) or, where   *)
(* its length matters (text), a sequence of one-character strings; None    *)
(* is a sentinel of the same shape; a record [text, count, uri] of the     *)
(* accumulators is the tuple <<text, count, uri>>, so x[1] of the code is  *)
(* rec[2] here.  Time is in seconds.                                       *)
(*                                                                         *)
(* main of count_likes.py prints the returned triple; its output is the    *)
(* sequence of its print calls.  The firehose scripts (read_posts.py,      *)
(* read_tags.py, count_tags.py) are modelled by their message handlers.    *)
(***************************************************************************)
EXTENDS Integers, Sequences, FiniteSets, TLC

\* ------------------------------------------------------------------------
\* Bounds of the model
\* ------------------------------------------------------------------------
MaxPosts == 2          \* max_posts ranges over 1..MaxPosts
MaxTopN == 2           \* top_n ranges over 1..MaxTopN
MaxWindowHours == 1    \* time_window_hours ranges over 1..MaxWindowHours
MaxTimeoutTicks == 1   \* timeout_seconds is 1..MaxTimeoutTicks clock ticks
MaxTicks == 1          \* the clock advances at most MaxTicks times
MaxRequests == 2       \* get_timeline is called at most MaxRequests times
MaxPage == 2           \* a page holds 0..MaxPage items
ScenarioAvailable == 150  \* posts the server holds in the paging scenario
MaxPagingPosts == 150  \* max_posts of the long runs
MaxPagingRequests == 3 \* a long run makes at most MaxPagingRequests requests
MaxMessages == 2       \* count_tags handles at most MaxMessages messages
MaxFhTicks == 4        \* the firehose clock advances at most MaxFhTicks times

\* ------------------------------------------------------------------------
\* Program constants
\* ------------------------------------------------------------------------
SecondsPerHour == 3600        \* timedelta(hours=...)
PageCap == 100                \* min(100, max_posts - post_count)
TruncLen == 50                \* post_text[:50]
DefaultWindowHours == 72      \* time_window_hours=72
DefaultMaxPosts == 100        \* max_posts=100
DefaultTopN == 5              \* top_n=5
DefaultTimeout == 300         \* timeout_seconds=300

print_interval == 10           \* count_tags.py, line 16
TopTags == 20                  \* most_common(20)
FhTickSeconds == print_interval \div 2
TickSeconds == SecondsPerHour \div 2
ClockStart == 4 * SecondsPerHour

Min(a, b) == IF a < b THEN a ELSE b

\* ------------------------------------------------------------------------
\* Python values
\* ------------------------------------------------------------------------
NoneStr == "<None>"           \* None where a str is expected
NoneText == <<"<None>">>      \* None where a text is expected
NoneCount == -1               \* None where a count is expected

\* truth value of a str (uri, cursor, handle, password): not x
TruthyStrButNone(x) == x # ""
TruthyStr(x) == x # NoneStr /\ x # ""
\* truth value of a text
TruthyTextButNone(x) == x # <<>>
TruthyText(x) == x # NoneText /\ x # <<>>

\* "x or 0" on a count returned by the thread lookup
OrZero(c) == IF c = NoneCount \/ c = 0 THEN 0 ELSE c

\* ------------------------------------------------------------------------
\* Inputs: the values the environment can supply
\* ------------------------------------------------------------------------
Credentials == {NoneStr, "", "set"}

\* created_at as the client delivers it: an ISO string with an offset
\* ("aware"), an ISO string without one ("naive"), a string that is not an
\* ISO timestamp ("malformed"), or no string at all ("absent").
Aware(t) == [kind |-> "aware", t |-> t]

\* The posts of the network.  With the clock at ClockStart when the run
\* starts: "stale" is one second older than the widest window, "edge" is
\* exactly one hour old, "future" is dated one second ahead of the clock.
Items ==
  { [created_at |-> Aware(ClockStart - MaxWindowHours * SecondsPerHour - 1), text |-> <<"s">>, uri |-> "at://stale"],
    [created_at |-> Aware(ClockStart - SecondsPerHour), text |-> <<"a">>, uri |-> "at://edge"],
    [created_at |-> Aware(ClockStart + 1), text |-> <<"b">>, uri |-> "at://future"],
    [created_at |-> [kind |-> "naive", t |-> ClockStart], text |-> <<"n">>, uri |-> "at://naive"],
    [created_at |-> [kind |-> "malformed", t |-> 0], text |-> <<"m">>, uri |-> "at://malformed"],
    [created_at |-> [kind |-> "absent", t |-> 0], text |-> <<"x">>, uri |-> "at://absent"],
    [created_at |-> Aware(ClockStart), text |-> <<>>, uri |-> "at://notext"],
    [created_at |-> Aware(ClockStart), text |-> <<"u">>, uri |-> NoneStr] }

\* the two other ways in which a post lacks its text or its uri: the text
\* is None, the uri is empty
BlankItems ==
  { [created_at |-> Aware(ClockStart), text |-> NoneText, uri |-> "at://nonetext"],
    [created_at |-> Aware(ClockStart), text |-> <<"u">>, uri |-> ""] }

\* a text of n characters
TextOfLen(n) == [k \in 1..n |-> "t"]

\* Posts inside every window whose texts are one character, TruncLen
\* characters and one character more than TruncLen.
TextItems ==
  { [created_at |-> Aware(ClockStart), text |-> <<"c">>, uri |-> "at://short"],
    [created_at |-> Aware(ClockStart), text |-> TextOfLen(TruncLen), uri |-> "at://fifty"],
    [created_at |-> Aware(ClockStart), text |-> TextOfLen(TruncLen + 1), uri |-> "at://fiftyone"] }

\* the post behind a uri (uris of posts are unique)
ItemOf(uri) == CHOOSE it \in Items \cup BlankItems \cup TextItems : it.uri = uri

\* the loop variable before the first iteration
NoPost == [created_at |-> [kind |-> "absent", t |-> 0], text |-> NoneText, uri |-> NoneStr]

\* get_post_thread: raises, or returns the three counts (each may be None)
LookupError == [ok |-> FALSE, like_count |-> NoneCount, repost_count |-> NoneCount, reply_count |-> NoneCount]
Threads ==
  { LookupError,
    [ok |-> TRUE, like_count |-> 2, repost_count |-> NoneCount, reply_count |-> 1] }

Cursors == {NoneStr, "c1", "c2"}

\* The record behind an operation of a commit, as car.blocks.get(op.cid)
\* yields it: None when the CAR holds no block for the cid, else a dict
\* with its $type and its text.  A text is a sequence of characters.
NoData == [present |-> FALSE, type |-> "", text |-> <<>>]
PostData(text) == [present |-> TRUE, type |-> "app.bsky.feed.post", text |-> text]

\* The operations a commit can hold: the creation of a post with one
\* hashtag ("#b a"), with the same hashtag twice in two cases ("#A #a"),
\* with a "#" inside a word only ("a#b"), with one hashtag more than
\* count_tags prints ("#a #b ... #u"); the creation of a like; a creation
\* whose block is missing; a creation whose block is a dict without
\* '$type'; a deletion.
CreateOp(data) == [action |-> "create", cid |-> TRUE, data |-> data]
OneTagPost == CreateOp(PostData(<<"#", "b", " ", "a">>))
TwoTagPost == CreateOp(PostData(<<"#", "A", " ", "#", "a">>))
NoTagPost == CreateOp(PostData(<<"a", "#", "b">>))
TagLetters ==
  <<"a", "b", "c", "d", "e", "f", "g", "h", "i", "j", "k",
    "l", "m", "n", "o", "p", "q", "r", "s", "t", "u">>
ManyTagsText ==
  [p \in 1..(3 * Len(TagLetters) - 1) |->
     CASE p % 3 = 1 -> "#"
       [] p % 3 = 2 -> TagLetters[(p + 1) \div 3]
       [] OTHER -> " "]
ManyTagPost == CreateOp(PostData(ManyTagsText))
NoType == "<no $type>"        \* the dict has no '$type' key
NoTypeOp == CreateOp([present |-> TRUE, type |-> NoType, text |-> <<>>])
LikeOp == CreateOp([present |-> TRUE, type |-> "app.bsky.feed.like", text |-> <<>>])
MissingBlockOp == CreateOp(NoData)
DeleteOp == [action |-> "delete", cid |-> FALSE, data |-> NoData]

\* the operation lists of the commits
FhOpsLists ==
  { <<>>, <<DeleteOp, NoTagPost>>,
    <<LikeOp, OneTagPost>>, <<MissingBlockOp, TwoTagPost>>, <<OneTagPost, TwoTagPost>>,
    <<ManyTagPost>>, <<OneTagPost, NoTypeOp, TwoTagPost>> }

\* a firehose message that is not a commit; blocks is the truth value of
\* commit.blocks, car whether CAR.from_bytes(commit.blocks) returns
NoMessage == [type |-> "other", blocks |-> FALSE, car |-> FALSE, repo |-> "", ops |-> <<>>]

\* The messages of the firehose: one that is not a commit, a commit
\* without blocks, a commit whose blocks are not a CAR, and the commits
\* whose blocks are one.
FhMessages ==
  { NoMessage,
    [type |-> "commit", blocks |-> FALSE, car |-> FALSE, repo |-> "did:plc:alice", ops |-> <<>>],
    [type |-> "commit", blocks |-> TRUE, car |-> FALSE, repo |-> "did:plc:alice",
     ops |-> <<OneTagPost>>] }
  \cup { [type |-> "commit", blocks |-> TRUE, car |-> TRUE, repo |-> "did:plc:alice",
          ops |-> ops] : ops \in FhOpsLists }

\* the handle the profile query returns for a DID
HandleOf(did) == "alice.test"

\* ------------------------------------------------------------------------
\* State
\* ------------------------------------------------------------------------
VARIABLES
  handle, password,            \* os.getenv('BLUESKY_HANDLE'), ('BLUESKY_PASSWORD')
  time_window_hours, max_posts, top_n, timeout_seconds,   \* parameters
  now,                         \* the wall clock
  pc,                          \* position in process_timeline
  post_likes, post_reposts, post_replies, post_count,
  start_time, deadline, cursor,
  timeline,                    \* the page being processed: [feed_len, cursor]
  idx,                         \* items of the page already iterated
  top_likes, top_reposts, top_replies,    \* the returned triple
  login_calls,                 \* number of client.login calls
  requests,                    \* number of client.get_timeline calls
  last_request,                \* the latest of them: limit, cursor, outcome
  lookups,                     \* the get_post_thread calls: uri, outcome
  log,                         \* messages logged so far at INFO level or above
  post,                        \* the item the for loop holds (line 115)
  console,                     \* the print calls of main
  fh_script,                   \* firehose: the script whose handler ran last
  fh_message,                  \* firehose: the message it was given
  fh_profile_ok,               \* firehose: whether its profile query returned
  fh_stdout,                   \* firehose: what that handler call printed
  fh_raised,                   \* firehose: the exception it ended with, "" if none
  fh_now,                      \* firehose: the wall clock
  fh_handled,                  \* count_tags: messages handled so far
  hashtag_counts,              \* count_tags: the Counter, in insertion order
  last_print_time,             \* count_tags: time of the last print
  print_times                  \* count_tags: the times of its prints so far

vars == <<handle, password, time_window_hours, max_posts, top_n, timeout_seconds,
          now, pc, post_likes, post_reposts, post_replies, post_count,
          start_time, deadline, cursor, timeline, idx,
          top_likes, top_reposts, top_replies, login_calls, requests,
          last_request, lookups, log, post, console,
          fh_script, fh_message, fh_profile_ok, fh_stdout, fh_raised, fh_now, fh_handled,
          hashtag_counts, last_print_time, print_times>>

firehose == <<fh_script, fh_message, fh_profile_ok, fh_stdout, fh_raised, fh_now, fh_handled,
              hashtag_counts, last_print_time, print_times>>
\* what process_timeline does not touch, but for the loop variable post
outside == <<console, firehose>>
params == <<handle, password, time_window_hours, max_posts, top_n, timeout_seconds>>
accumulators == <<post_likes, post_reposts, post_replies, post_count>>
returned == <<top_likes, top_reposts, top_replies>>
timeline_calls == <<requests, last_request>>
calls == <<login_calls, timeline_calls, lookups>>

Returned == {"ret_config", "ret_login", "ret_fetch", "ret_ok"}
Raised == {"raise_AttributeError", "raise_TypeError"}

\* ------------------------------------------------------------------------
\* Pure functions of the code
\* ------------------------------------------------------------------------
\* line 43: not handle or not password
CredentialsMissingAnd(h, p) == ~TruthyStr(h) /\ ~TruthyStr(p)
CredentialsMissing(h, p) == ~TruthyStr(h) \/ ~TruthyStr(p)

\* line 72: timedelta(hours=time_window_hours), in seconds
TimeDelta(hours) == hours * SecondsPerHour

\* line 83: post_count < max_posts and time.time() < deadline
WhileCondOffByOne(count, maxp, t, dl) == count <= maxp /\ t < dl
WhileCondNoDeadline(count, maxp, t, dl) == count < maxp
WhileCond(count, maxp, t, dl) == count < maxp /\ t < dl

\* line 86: min(100, max_posts - post_count)
LimitUncapped(maxp, count) == maxp - count
Limit(maxp, count) == Min(PageCap, maxp - count)

\* line 123: datetime.fromisoformat(created_at.replace('Z', '+00:00'))
\* None has no replace (AttributeError); a string that is not ISO raises
\* ValueError; otherwise a datetime, aware or naive, at instant t.
FromIsoformatUncaught(created_at) ==
  CASE created_at.kind \in {"absent", "malformed"} ->
         [status |-> "AttributeError", aware |-> FALSE, t |-> 0]
    [] created_at.kind = "naive" -> [status |-> "ok", aware |-> FALSE, t |-> created_at.t]
    [] created_at.kind = "aware" -> [status |-> "ok", aware |-> TRUE, t |-> created_at.t]
FromIsoformat(created_at) ==
  CASE created_at.kind = "absent" -> [status |-> "AttributeError", aware |-> FALSE, t |-> 0]
    [] created_at.kind = "malformed" -> [status |-> "ValueError", aware |-> FALSE, t |-> 0]
    [] created_at.kind = "naive" -> [status |-> "ok", aware |-> FALSE, t |-> created_at.t]
    [] created_at.kind = "aware" -> [status |-> "ok", aware |-> TRUE, t |-> created_at.t]

\* line 131: record_time < start_time - time_window (both aware)
BeforeWindowSignSlip(record_time, st, hours) == record_time > st - TimeDelta(hours)
BeforeWindow(record_time, st, hours) == record_time < st - TimeDelta(hours)

\* lines 144-157: the three counts of an item after the lookup
CountsOfKeepNone(thread) ==
  IF thread.ok
  THEN <<OrZero(thread.like_count), OrZero(thread.repost_count), OrZero(thread.reply_count)>>
  ELSE <<thread.like_count, thread.repost_count, thread.reply_count>>
CountsOf(thread) ==
  IF thread.ok
  THEN <<OrZero(thread.like_count), OrZero(thread.repost_count), OrZero(thread.reply_count)>>
  ELSE <<0, 0, 0>>

\* line 161: post_text[:50] + "..." if len(post_text) > 50 else post_text
TruncateFromLimit(text) ==
  IF Len(text) >= TruncLen THEN SubSeq(text, 1, TruncLen) \o <<".", ".", ".">> ELSE text
Truncate(text) ==
  IF Len(text) > TruncLen THEN SubSeq(text, 1, TruncLen) \o <<".", ".", ".">> ELSE text

\* lines 161-163: the records appended to post_likes, post_reposts and
\* post_replies
RecordsUriOnLikesOnly(text, counts, uri) ==
  << <<text, counts[1], uri>>, <<text, counts[2], "">>, <<text, counts[3], "">> >>
Records(text, counts, uri) ==
  << <<text, counts[1], uri>>, <<text, counts[2], uri>>, <<text, counts[3], uri>> >>

\* line 172: post_count >= max_posts
MaxPostsReachedStrict(count, maxp) == count > maxp
MaxPostsReached(count, maxp) == count >= maxp

\* lines 188-194: sorted(xs, key=lambda x: x[1], reverse=True), a stable
\* merge sort on the count, larger counts first.  Merging two sorted runs,
\* a record of the left run goes before the records of the right run whose
\* count is not larger, so records of equal count keep their list order.
MergeDescTiesReversed(left, right) ==
  LET posL(i) == i + Cardinality({j \in 1..Len(right) : right[j][2] >= left[i][2]})
      posR(j) == j + Cardinality({i \in 1..Len(left) : left[i][2] > right[j][2]})
  IN [k \in 1..(Len(left) + Len(right)) |->
        IF \E i \in 1..Len(left) : posL(i) = k
        THEN left[CHOOSE i \in 1..Len(left) : posL(i) = k]
        ELSE right[CHOOSE j \in 1..Len(right) : posR(j) = k]]
MergeDesc(left, right) ==
  LET posL(i) == i + Cardinality({j \in 1..Len(right) : right[j][2] > left[i][2]})
      posR(j) == j + Cardinality({i \in 1..Len(left) : left[i][2] >= right[j][2]})
  IN [k \in 1..(Len(left) + Len(right)) |->
        IF \E i \in 1..Len(left) : posL(i) = k
        THEN left[CHOOSE i \in 1..Len(left) : posL(i) = k]
        ELSE right[CHOOSE j \in 1..Len(right) : posR(j) = k]]

RECURSIVE SortedDesc(_)
SortedDesc(xs) ==
  IF Len(xs) <= 1 THEN xs
  ELSE LET half == Len(xs) \div 2
       IN MergeDesc(SortedDesc(SubSeq(xs, 1, half)),
                    SortedDesc(SubSeq(xs, half + 1, Len(xs))))

\* xs[:n] for n >= 0
SliceOneMore(xs, n) == SubSeq(xs, 1, Min(n + 1, Len(xs)))
Slice(xs, n) == SubSeq(xs, 1, Min(n, Len(xs)))

TopN(xs, n) == Slice(SortedDesc(xs), n)

\* lines 95-98: what the fetch-error handler returns
FetchErrorResultPartial(likes, reposts, replies, n) == <<TopN(likes, n), TopN(reposts, n), TopN(replies, n)>>
FetchErrorResult(likes, reposts, replies, n) == <<<<>>, <<>>, <<>>>>

\* ------------------------------------------------------------------------
\* Initial states
\* ------------------------------------------------------------------------
InitLocals ==
  /\ now = ClockStart
  /\ pc = "start"
  /\ post_likes = <<>> /\ post_reposts = <<>> /\ post_replies = <<>>
  /\ post_count = 0
  /\ start_time = 0 /\ deadline = 0 /\ cursor = NoneStr
  /\ timeline = [feed_len |-> 0, cursor |-> NoneStr]
  /\ idx = 0
  /\ top_likes = <<>> /\ top_reposts = <<>> /\ top_replies = <<>>
  /\ login_calls = 0 /\ lookups = <<>>
  /\ requests = 0
  /\ last_request = [limit |-> 0, cursor |-> NoneStr, ok |-> TRUE]
  /\ log = {}
  /\ post = NoPost
  /\ console = <<>>

\* the firehose scripts before their first message
InitFirehose ==
  /\ fh_script = ""
  /\ fh_message = NoMessage
  /\ fh_profile_ok = TRUE
  /\ fh_stdout = <<>>
  /\ fh_raised = ""
  /\ fh_now = 0
  /\ fh_handled = 0
  /\ hashtag_counts = <<>>
  /\ last_print_time = 0
  /\ print_times = <<>>

Init ==
  /\ handle \in Credentials
  /\ password \in Credentials
  /\ time_window_hours \in 1..MaxWindowHours
  /\ max_posts \in 1..MaxPosts
  /\ top_n \in 1..MaxTopN
  /\ timeout_seconds \in {k * TickSeconds : k \in 1..MaxTimeoutTicks}
  /\ InitLocals
  /\ InitFirehose

\* ------------------------------------------------------------------------
\* The wall clock
\* ------------------------------------------------------------------------
\* The clock is first read at line 69, and the run depends only on how far
\* the later readings and the timestamps of the posts are from that first
\* reading.  So the first reading is ClockStart, and the clock advances from
\* then on, at any point of the loop.
Tick ==
  /\ pc \in {"while", "fetch", "for", "after_for", "finish"}
  /\ now < ClockStart + MaxTicks * TickSeconds
  /\ now' = now + TickSeconds
  /\ UNCHANGED <<outside, post, params, pc, accumulators, start_time, deadline, cursor,
                 timeline, idx, returned, calls, log>>

\* ------------------------------------------------------------------------
\* process_timeline, step by step
\* ------------------------------------------------------------------------
\* lines 36-45
CheckCredentials ==
  /\ pc = "start"
  /\ IF CredentialsMissing(handle, password)
     THEN /\ pc' = "ret_config"
          /\ log' = log \cup {"Missing BLUESKY_HANDLE or BLUESKY_PASSWORD in .env file"}
     ELSE /\ pc' = "login"
          /\ UNCHANGED log
  /\ UNCHANGED <<outside, post, params, now, accumulators, start_time, deadline, cursor,
                 timeline, idx, returned, calls>>

\* lines 48-57: where the run goes after client.login returned (ok) or
\* raised
AfterLoginIgnoresFailure(ok) == "init"
AfterLogin(ok) == IF ok THEN "init" ELSE "ret_login"

\* lines 48-57; ok is whether client.login returns
Login(ok) ==
  /\ pc = "login"
  /\ login_calls' = login_calls + 1
  /\ pc' = AfterLogin(ok)
  /\ log' = IF ok THEN log ELSE log \cup {"Failed to login to Bluesky"}
  /\ UNCHANGED <<outside, post, params, now, accumulators, start_time, deadline, cursor,
                 timeline, idx, returned, timeline_calls, lookups>>

LoginOk == Login(TRUE)
LoginFails == Login(FALSE)

\* lines 61-79; datetime.now (line 69) and time.time (line 79) read the
\* same clock
InitLoop ==
  /\ pc = "init"
  /\ post_likes' = <<>> /\ post_reposts' = <<>> /\ post_replies' = <<>>
  /\ post_count' = 0
  /\ start_time' = now
  /\ cursor' = NoneStr
  /\ deadline' = now + timeout_seconds
  /\ pc' = "while"
  /\ UNCHANGED <<outside, post, params, now, timeline, idx, returned, calls, log>>

\* line 83
While ==
  /\ pc = "while"
  /\ pc' = IF WhileCond(post_count, max_posts, now, deadline) THEN "fetch" ELSE "finish"
  /\ UNCHANGED <<outside, post, params, now, accumulators, start_time, deadline, cursor,
                 timeline, idx, returned, calls, log>>

\* lines 86-93: the arguments of the get_timeline call, and whether it
\* returned
Request(ok) == [limit |-> Limit(max_posts, post_count), cursor |-> cursor, ok |-> ok]

\* lines 94-104, the page of n items with cursor c that get_timeline returned
TimelineReturned(n, c) ==
  /\ pc = "fetch"
  /\ last_request' = Request(TRUE)
  /\ timeline' = [feed_len |-> n, cursor |-> c]
  /\ idx' = 0
  /\ IF n = 0
     THEN /\ pc' = "finish"
          /\ log' = log \cup {"No more posts in timeline"}
     ELSE /\ pc' = "for"
          /\ UNCHANGED log
  /\ UNCHANGED <<outside, post, params, now, accumulators, start_time, deadline, cursor,
                 returned, login_calls, lookups>>

\* lines 95-98, get_timeline having raised
TimelineRaised ==
  /\ pc = "fetch"
  /\ last_request' = Request(FALSE)
  /\ log' = log \cup {"Failed to fetch timeline"}
  /\ LET r == FetchErrorResult(post_likes, post_reposts, post_replies, top_n)
     IN /\ top_likes' = r[1]
        /\ top_reposts' = r[2]
        /\ top_replies' = r[3]
  /\ pc' = "ret_fetch"
  /\ UNCHANGED <<outside, post, params, now, accumulators, start_time, deadline, cursor,
                 timeline, idx, login_calls, lookups>>

\* lines 86-104, get_timeline returning a page of n items with cursor c;
\* a run makes at most MaxRequests requests
GetTimelineReturns(n, c) ==
  /\ requests < MaxRequests
  /\ requests' = requests + 1
  /\ TimelineReturned(n, c)

\* lines 86-98, get_timeline raising
GetTimelineRaises ==
  /\ requests < MaxRequests
  /\ requests' = requests + 1
  /\ TimelineRaised

Fetch == \E n \in 0..MaxPage, c \in Cursors : GetTimelineReturns(n, c)

\* the for loop moves on: next item, or the feed is exhausted
ForNext == IF idx + 1 >= timeline.feed_len THEN "after_for" ELSE "for"

\* line 115: the loop variable holds the item once the deadline test of
\* line 109 has let it in
PostAfter(item) == IF now >= deadline THEN post ELSE item

\* lines 107-173, one iteration of the for loop over the item and the
\* outcome of its thread lookup
ProcessItem(item, thread) ==
  /\ pc = "for"
  /\ idx < timeline.feed_len
  /\ idx' = idx + 1
  /\ LET parsed == FromIsoformat(item.created_at)
         counts == CountsOf(thread)
         text == Truncate(item.text)
     IN
     IF now >= deadline
     THEN \* lines 109-112
          /\ log' = log \cup {"Timeout reached, stopping"}
          /\ pc' = "after_for"
          /\ UNCHANGED <<accumulators, lookups>>
     ELSE IF parsed.status = "AttributeError"
     THEN \* line 123, None.replace
          /\ pc' = "raise_AttributeError"
          /\ UNCHANGED <<accumulators, lookups, log>>
     ELSE IF parsed.status = "ValueError"
     THEN \* lines 124-127
          /\ pc' = ForNext
          /\ UNCHANGED <<accumulators, lookups, log>>
     ELSE IF ~parsed.aware
     THEN \* line 131, naive < aware
          /\ pc' = "raise_TypeError"
          /\ UNCHANGED <<accumulators, lookups, log>>
     ELSE IF BeforeWindow(parsed.t, start_time, time_window_hours)
     THEN \* lines 131-133
          /\ pc' = ForNext
          /\ UNCHANGED <<accumulators, lookups, log>>
     ELSE IF TruthyText(item.text) /\ TruthyStr(item.uri)
     THEN \* lines 142-173
          /\ lookups' = Append(lookups, [uri |-> item.uri, thread |-> thread])
          /\ post_likes' = Append(post_likes, Records(text, counts, item.uri)[1])
          /\ post_reposts' = Append(post_reposts, Records(text, counts, item.uri)[2])
          /\ post_replies' = Append(post_replies, Records(text, counts, item.uri)[3])
          /\ post_count' = post_count + 1
          /\ log' = log \cup (IF thread.ok THEN {"Processed post"}
                                           ELSE {"Failed to get counts", "Processed post"})
          /\ pc' = IF MaxPostsReached(post_count + 1, max_posts) THEN "after_for" ELSE ForNext
     ELSE \* lines 142, 172
          /\ pc' = IF MaxPostsReached(post_count, max_posts) THEN "after_for" ELSE ForNext
          /\ UNCHANGED <<accumulators, lookups, log>>
  /\ post' = PostAfter(item)
  /\ UNCHANGED <<outside, params, now, start_time, deadline, cursor, timeline,
                 returned, login_calls, timeline_calls>>

ForItem == \E item \in Items, thread \in Threads : ProcessItem(item, thread)

\* line 179: not cursor
NoCursorNever(c) == FALSE
NoCursor(c) == ~TruthyStr(c)

\* lines 176-181
AdvanceCursor ==
  /\ pc = "after_for"
  /\ cursor' = timeline.cursor
  /\ IF NoCursor(timeline.cursor)
     THEN /\ pc' = "finish"
          /\ log' = log \cup {"No more posts available (no cursor)"}
     ELSE /\ pc' = "while"
          /\ UNCHANGED log
  /\ UNCHANGED <<outside, post, params, now, accumulators, start_time, deadline, timeline, idx,
                 returned, calls>>

\* lines 184-197
Finish ==
  /\ pc = "finish"
  /\ log' = IF post_likes = <<>> THEN log \cup {"No posts found within time window"} ELSE log
  /\ top_likes' = TopN(post_likes, top_n)
  /\ top_reposts' = TopN(post_reposts, top_n)
  /\ top_replies' = TopN(post_replies, top_n)
  /\ pc' = "ret_ok"
  /\ UNCHANGED <<outside, post, params, now, accumulators, start_time, deadline, cursor,
                 timeline, idx, calls>>

Next ==
  \/ Tick
  \/ CheckCredentials
  \/ LoginOk
  \/ LoginFails
  \/ InitLoop
  \/ While
  \/ Fetch
  \/ GetTimelineRaises
  \/ ForItem
  \/ AdvanceCursor
  \/ Finish

Spec == Init /\ [][Next]_vars

\* ------------------------------------------------------------------------
\* The paging scenario: the server holds ScenarioAvailable qualifying posts
\* and serves them in pages of at most PageCap; the run uses the defaults
\* of line 32; no call fails and the deadline is not reached.
\* ------------------------------------------------------------------------
ScenarioItem == CHOOSE it \in Items : it.uri = "at://edge"
ScenarioThread == CHOOSE th \in Threads : th.ok

\* posts the server has handed out before the request with cursor cur
ScenarioServed(cur) ==
  IF cur = NoneStr THEN 0 ELSE Min(Limit(max_posts, 0), ScenarioAvailable)

\* the size of the page the server returns for (limit, cur)
ScenarioPage(limit, cur) ==
  Min(Min(IF limit < 0 THEN 0 ELSE limit, PageCap), ScenarioAvailable - ScenarioServed(cur))

InitScenario ==
  /\ handle = "set"
  /\ password = "set"
  /\ time_window_hours = DefaultWindowHours
  /\ max_posts = DefaultMaxPosts
  /\ top_n = DefaultTopN
  /\ timeout_seconds = DefaultTimeout
  /\ InitLocals
  /\ InitFirehose

FetchScenario ==
  /\ cursor \in {NoneStr, "c1"}
  /\ LET n == ScenarioPage(Limit(max_posts, post_count), cursor)
     IN GetTimelineReturns(n, IF ScenarioServed(cursor) + n < ScenarioAvailable
                              THEN (IF cursor = NoneStr THEN "c1" ELSE "c2")
                              ELSE NoneStr)

ForItemScenario == ProcessItem(ScenarioItem, ScenarioThread)

NextScenario ==
  \/ CheckCredentials
  \/ LoginOk
  \/ InitLoop
  \/ While
  \/ FetchScenario
  \/ ForItemScenario
  \/ AdvanceCursor
  \/ Finish

SpecScenario == InitScenario /\ [][NextScenario]_vars

\* ------------------------------------------------------------------------
\* Long runs: max_posts is above the page cap of line 86, so that the run
\* needs several pages.  The server answers a request for limit items with
\* an empty page, a page of one item or a page of limit items, and with no
\* next cursor or with a cursor of its own for every page.  The first item
\* of a page may be too old, every other item qualifies; no call fails and
\* the deadline is not reached.
\* ------------------------------------------------------------------------
\* the items the page can hold at position i
PagingItems(i) ==
  { it \in Items : it.uri = "at://edge" \/ (i = 0 /\ it.uri = "at://stale") }

\* the sizes of the page that answers a request for limit items
PagingSizes(limit) == {0, 1, limit}

\* the next cursor that can come with the page of the k-th request
PagingCursors(k) == {NoneStr, IF k % 2 = 1 THEN "c1" ELSE "c2"}

InitPaging ==
  /\ handle = "set"
  /\ password = "set"
  /\ time_window_hours = MaxWindowHours
  /\ max_posts \in {PageCap + 1, MaxPagingPosts}
  /\ top_n = DefaultTopN
  /\ timeout_seconds = DefaultTimeout
  /\ InitLocals
  /\ InitFirehose

FetchPaging ==
  \E n \in PagingSizes(Limit(max_posts, post_count)), c \in PagingCursors(requests + 1) :
     /\ requests < MaxPagingRequests
     /\ requests' = requests + 1
     /\ TimelineReturned(n, c)

GetTimelineRaisesPaging ==
  /\ requests < MaxPagingRequests
  /\ requests' = requests + 1
  /\ TimelineRaised

ForItemPaging == \E item \in PagingItems(idx) : ProcessItem(item, ScenarioThread)

NextPaging ==
  \/ CheckCredentials
  \/ LoginOk
  \/ InitLoop
  \/ While
  \/ FetchPaging
  \/ GetTimelineRaisesPaging
  \/ ForItemPaging
  \/ AdvanceCursor
  \/ Finish

SpecPaging == InitPaging /\ [][NextPaging]_vars

\* ------------------------------------------------------------------------
\* Runs without a bound on the number of requests: requests counts them up
\* to MaxRequests and stays there.  Every step of process_timeline that
\* can be taken is taken in the end (each external call returns or
\* raises), and the clock goes on ticking while the loop runs, far enough
\* to reach the deadline.
\* ------------------------------------------------------------------------
InitLive ==
  /\ Init
  /\ timeout_seconds <= MaxTicks * TickSeconds

FetchLive ==
  \E n \in 0..MaxPage, c \in Cursors :
     requests' = Min(requests + 1, MaxRequests) /\ TimelineReturned(n, c)

GetTimelineRaisesLive ==
  requests' = Min(requests + 1, MaxRequests) /\ TimelineRaised

StepLive ==
  \/ CheckCredentials
  \/ LoginOk
  \/ LoginFails
  \/ InitLoop
  \/ While
  \/ FetchLive
  \/ GetTimelineRaisesLive
  \/ ForItem
  \/ AdvanceCursor
  \/ Finish

NextLive == Tick \/ StepLive

SpecLive == InitLive /\ [][NextLive]_vars /\ WF_vars(StepLive) /\ WF_vars(Tick)

\* ------------------------------------------------------------------------
\* The standalone run: main calls process_timeline with the defaults of
\* line 32 and prints what it returns.  The timeline has one page (no next
\* cursor), so that a run accepts at most MaxPage posts; every item, call
\* outcome and clock reading of that page is open.
\* ------------------------------------------------------------------------
\* the posts of the page: those of TextItems and of BlankItems, and those
\* of Items but for the three that differ in age only (with the default
\* window of 72 hours the age of a post plays no part)
MainItems ==
  TextItems \cup BlankItems
    \cup { it \in Items : it.uri \notin {"at://stale", "at://edge", "at://future"} }

InitMain ==
  /\ handle \in Credentials
  /\ password \in Credentials
  /\ time_window_hours = DefaultWindowHours
  /\ max_posts = DefaultMaxPosts
  /\ top_n = DefaultTopN
  /\ timeout_seconds = DefaultTimeout
  /\ InitLocals
  /\ InitFirehose

FetchMain == \E n \in 0..MaxPage : GetTimelineReturns(n, NoneStr)

ForItemMain ==
  \E item \in MainItems, thread \in Threads :
     ProcessItem(item, thread)

\* One print call of main.  kind is "none" for the "No posts processed for
\* <metric>." line (lines 206, 222, 238), "header" and "separator" for the
\* two lines above the records, "block" for a record (lines 217, 233, 249),
\* whose f-string interpolates rank, count, text and uri.
Line(kind, metric) ==
  [kind |-> kind, metric |-> metric, rank |-> 0, count |-> 0, text |-> <<>>, uri |-> ""]
Block(metric, rank, rec) ==
  [kind |-> "block", metric |-> metric, rank |-> rank, count |-> rec[2],
   text |-> rec[1], uri |-> rec[3]]

\* enumerate(top, 1): the rank printed for the record at position i
RankFromZero(i) == i - 1
RankOf(i) == i

\* lines 205-217 (likes), 221-233 (reposts), 237-249 (replies)
MetricOutput(metric, top) ==
  (IF top = <<>> THEN <<Line("none", metric)>> ELSE <<>>)
    \o <<Line("header", metric), Line("separator", metric)>>
    \o [i \in 1..Len(top) |-> Block(metric, RankOf(i), top[i])]

\* lines 200-250, after process_timeline has returned
MainPrints ==
  /\ pc \in Returned
  /\ console' = MetricOutput("likes", top_likes)
                   \o MetricOutput("reposts", top_reposts)
                   \o MetricOutput("replies", top_replies)
  /\ pc' = "exit"
  /\ UNCHANGED <<firehose, post, params, now, accumulators, start_time, deadline, cursor,
                 timeline, idx, returned, calls, log>>

NextMain ==
  \/ Tick
  \/ CheckCredentials
  \/ LoginOk
  \/ LoginFails
  \/ InitLoop
  \/ While
  \/ FetchMain
  \/ GetTimelineRaises
  \/ ForItemMain
  \/ AdvanceCursor
  \/ Finish
  \/ MainPrints

SpecMain == InitMain /\ [][NextMain]_vars

\* ------------------------------------------------------------------------
\* The firehose scripts: read_posts.py, read_tags.py, count_tags.py
\* ------------------------------------------------------------------------
\* text.split(): the words of a text, cut at the blanks; word is the word
\* being read at position i
RECURSIVE SplitFrom(_, _, _)
SplitFrom(text, i, word) ==
  IF i > Len(text)
  THEN (IF word = <<>> THEN <<>> ELSE <<word>>)
  ELSE IF text[i] = " "
  THEN (IF word = <<>> THEN <<>> ELSE <<word>>) \o SplitFrom(text, i + 1, <<>>)
  ELSE SplitFrom(text, i + 1, Append(word, text[i]))

Split(text) == SplitFrom(text, 1, <<>>)

\* word.startswith('#')
StartsWithHash(word) == Len(word) > 0 /\ word[1] = "#"

\* word.lower(), on the letters the texts are written with
LowerChar(c) == CASE c = "A" -> "a" [] c = "B" -> "b" [] OTHER -> c
Lower(word) == [k \in 1..Len(word) |-> LowerChar(word[k])]

\* read_tags.py line 63: [word for word in words if word.startswith('#')]
Hashtags(text) == SelectSeq(Split(text), StartsWithHash)

\* count_tags.py line 71: the same, each in lower case
LowerHashtags(text) ==
  LET hashtags == Hashtags(text)
  IN [k \in 1..Len(hashtags) |-> Lower(hashtags[k])]

\* lines 57-62 of count_tags.py (50-55 of read_tags.py, 37-42 of
\* read_posts.py): the operation creates a post whose block is in the CAR
CreatesPost(op) ==
  /\ op.action = "create"
  /\ op.cid
  /\ op.data.present
  /\ op.data.type = "app.bsky.feed.post"

\* lines 45-50 of count_tags.py (38-43 of read_tags.py, 27-32 of
\* read_posts.py): the handle if the profile query returned, else the DID
AuthorHandleNone(ok, did) == IF ok THEN HandleOf(did) ELSE NoneStr
AuthorHandle(ok, did) == IF ok THEN HandleOf(did) ELSE did

\* lines 28-34 of count_tags.py (21-27 of read_tags.py, 13-18 of
\* read_posts.py): the handler returns at once
NotRelevant(message) == message.type # "commit" \/ ~message.blocks

\* line 62 of count_tags.py (55 of read_tags.py, 42 of read_posts.py):
\* data['$type'] on a block that is a dict without that key
RaisesKeyError(op) ==
  /\ op.action = "create"
  /\ op.cid
  /\ op.data.present
  /\ op.data.type = NoType

\* the operations the for loop gets through: those before the first one
\* that makes it raise
RECURSIVE OpsHandled(_)
OpsHandled(ops) ==
  IF ops = <<>> \/ RaisesKeyError(Head(ops)) THEN <<>>
  ELSE <<Head(ops)>> \o OpsHandled(Tail(ops))

\* How a handler call that got past its early returns ends: CAR.from_bytes
\* raises at line 38 of count_tags.py (31 of read_tags.py, 21 of
\* read_posts.py) on blocks that are not a CAR, the for loop raises
\* KeyError, or the call returns ("").
HandlerRaises(message) ==
  IF ~message.car THEN "CAR.from_bytes"
  ELSE IF OpsHandled(message.ops) # message.ops THEN "KeyError"
  ELSE ""

\* What a handler call printed: for read_posts.py one entry per print call
\* of line 49, for read_tags.py one per post (the four print calls of lines
\* 68-74), for count_tags.py one per call of print_top_hashtags, whose
\* hashtags are the (hashtag, count) pairs it lists.
Printed(kind, author, text, hashtags) ==
  [kind |-> kind, author |-> author, text |-> text, hashtags |-> hashtags]

\* read_posts.py lines 35-49
RECURSIVE ReadPostsOutput(_, _)
ReadPostsOutput(author, ops) ==
  IF ops = <<>> THEN <<>>
  ELSE LET op == Head(ops)
           words == Split(op.data.text)
       IN (IF CreatesPost(op) /\ \E k \in 1..Len(words) : StartsWithHash(words[k])
           THEN <<Printed("post", author, op.data.text, <<>>)>>
           ELSE <<>>) \o ReadPostsOutput(author, Tail(ops))

\* read_tags.py lines 47-74
RECURSIVE ReadTagsOutput(_, _)
ReadTagsOutput(author, ops) ==
  IF ops = <<>> THEN <<>>
  ELSE LET op == Head(ops)
           hashtags == Hashtags(op.data.text)
       IN (IF CreatesPost(op) /\ hashtags # <<>>
           THEN <<Printed("post", author, op.data.text, hashtags)>>
           ELSE <<>>) \o ReadTagsOutput(author, Tail(ops))

\* Counter.update with one more occurrence of tag; the Counter keeps its
\* keys in the order of their first occurrence
AddOne(counter, tag) ==
  IF \E i \in 1..Len(counter) : counter[i][1] = tag
  THEN [i \in 1..Len(counter) |->
          IF counter[i][1] = tag THEN <<tag, counter[i][2] + 1>> ELSE counter[i]]
  ELSE Append(counter, <<tag, 1>>)

\* count_tags.py line 74: hashtag_counts.update(hashtags)
RECURSIVE CounterUpdate(_, _)
CounterUpdate(counter, tags) ==
  IF tags = <<>> THEN counter
  ELSE CounterUpdate(AddOne(counter, Head(tags)), Tail(tags))

\* count_tags.py lines 54-74: the Counter after the operations of a commit
RECURSIVE CountOps(_, _)
CountOps(counter, ops) ==
  IF ops = <<>> THEN counter
  ELSE LET op == Head(ops)
       IN CountOps(IF CreatesPost(op)
                   THEN CounterUpdate(counter, LowerHashtags(op.data.text))
                   ELSE counter,
                   Tail(ops))

\* count_tags.py line 80
PrintDueStrict(current_time, last, interval) == current_time - last > interval
PrintDueAlways(current_time, last, interval) == TRUE
PrintDue(current_time, last, interval) == current_time - last >= interval

\* count_tags.py lines 87-95: most_common(20) sorts by count, largest
\* first, and keeps the order of the Counter among equal counts
PrintTopHashtags(counter) ==
  <<Printed("top", "", <<>>, Slice(SortedDesc(counter), TopTags))>>

\* what every handler call records: which script, which message, the
\* outcome of the profile query, and the exception the call ended with
Delivered(script, message, ok) ==
  /\ fh_script' = script
  /\ fh_message' = message
  /\ fh_profile_ok' = ok
  /\ fh_raised' = IF NotRelevant(message) THEN "" ELSE HandlerRaises(message)

\* read_posts.py lines 8-49
ReadPostsOnMessage ==
  \E message \in FhMessages, ok \in BOOLEAN :
     /\ Delivered("read_posts", message, ok)
     /\ fh_stdout' = IF NotRelevant(message) \/ ~message.car THEN <<>>
                      ELSE ReadPostsOutput(AuthorHandle(ok, message.repo),
                                           OpsHandled(message.ops))
     /\ UNCHANGED <<fh_now, fh_handled, hashtag_counts, last_print_time, print_times>>
     /\ UNCHANGED <<console, post, params, now, pc, accumulators, start_time, deadline,
                    cursor, timeline, idx, returned, calls, log>>

\* read_tags.py lines 15-74
ReadTagsOnMessage ==
  \E message \in FhMessages, ok \in BOOLEAN :
     /\ Delivered("read_tags", message, ok)
     /\ fh_stdout' = IF NotRelevant(message) \/ ~message.car THEN <<>>
                      ELSE ReadTagsOutput(AuthorHandle(ok, message.repo),
                                          OpsHandled(message.ops))
     /\ UNCHANGED <<fh_now, fh_handled, hashtag_counts, last_print_time, print_times>>
     /\ UNCHANGED <<console, post, params, now, pc, accumulators, start_time, deadline,
                    cursor, timeline, idx, returned, calls, log>>

\* count_tags.py lines 19-84
CountTagsOnMessage ==
  \E message \in FhMessages, ok \in BOOLEAN :
     /\ fh_handled < MaxMessages
     /\ fh_handled' = fh_handled + 1
     /\ Delivered("count_tags", message, ok)
     /\ IF NotRelevant(message) \/ ~message.car
        THEN \* lines 28-34 return, line 38 raises
             /\ fh_stdout' = <<>>
             /\ UNCHANGED <<hashtag_counts, last_print_time, print_times>>
        ELSE LET counted == CountOps(hashtag_counts, OpsHandled(message.ops))
             IN /\ hashtag_counts' = counted
                /\ IF /\ HandlerRaises(message) = ""
                      /\ PrintDue(fh_now, last_print_time, print_interval)
                   THEN /\ fh_stdout' = PrintTopHashtags(counted)
                        /\ print_times' = Append(print_times, fh_now)
                        /\ last_print_time' = fh_now
                   ELSE /\ fh_stdout' = <<>>
                        /\ UNCHANGED <<last_print_time, print_times>>
     /\ UNCHANGED <<fh_now>>
     /\ UNCHANGED <<console, post, params, now, pc, accumulators, start_time, deadline,
                    cursor, timeline, idx, returned, calls, log>>

\* the wall clock of the firehose scripts
TickFh ==
  /\ fh_now < MaxFhTicks * FhTickSeconds
  /\ fh_now' = fh_now + FhTickSeconds
  /\ UNCHANGED <<fh_script, fh_message, fh_profile_ok, fh_stdout, fh_raised, fh_handled,
                 hashtag_counts, last_print_time, print_times>>
  /\ UNCHANGED <<console, post, params, now, pc, accumulators, start_time, deadline,
                 cursor, timeline, idx, returned, calls, log>>

\* the scripts start with the state of their module level (count_tags.py
\* lines 12-16); process_timeline is not running
InitFh ==
  /\ handle = NoneStr
  /\ password = NoneStr
  /\ time_window_hours = DefaultWindowHours
  /\ max_posts = DefaultMaxPosts
  /\ top_n = DefaultTopN
  /\ timeout_seconds = DefaultTimeout
  /\ InitLocals
  /\ InitFirehose

NextFh ==
  \/ TickFh
  \/ ReadPostsOnMessage
  \/ ReadTagsOnMessage
  \/ CountTagsOnMessage

SpecFirehose == InitFh /\ [][NextFh]_vars

\* ------------------------------------------------------------------------
\* Properties
\* ------------------------------------------------------------------------
NoResults == top_likes = <<>> /\ top_reposts = <<>> /\ top_replies = <<>>
NoClientCall == login_calls = 0 /\ requests = 0 /\ lookups = <<>>
TimeoutLogged == "Timeout reached, stopping" \in log

\* created_at of the post a record was made from
CreatedAt(rec) == ItemOf(rec[3]).created_at.t

\* the position of acc[i] when acc is ordered by count, larger first, and
\* by position in acc among equal counts
Rank(acc, i) ==
  1 + Cardinality({j \in 1..Len(acc) :
                     acc[j][2] > acc[i][2] \/ (acc[j][2] = acc[i][2] /\ j < i)})

\* top holds the first n records of acc in that order
IsStableTopN(top, acc, n) ==
  /\ Len(top) = Min(n, Len(acc))
  /\ \A i \in 1..Len(acc) : Rank(acc, i) <= n => top[Rank(acc, i)] = acc[i]

NonIncreasing(top) == \A k \in 1..(Len(top) - 1) : top[k][2] >= top[k + 1][2]

\* C1: when the handle or the password is missing or empty, the run makes
\* no call to the client (login, get_timeline, get_post_thread), returns,
\* and returns an empty list for every metric.
C1_MissingCredentials ==
  (~TruthyStr(handle) \/ ~TruthyStr(password)) =>
     /\ NoClientCall
     /\ pc \in {"start", "ret_config"}
     /\ NoResults
C1_Witness ==
  /\ pc = "ret_config"
  /\ TruthyStr(handle) /\ password = ""
  /\ log # {}

\* C2: when a get_timeline request fails, the first or a later one, the run
\* has returned an empty list for every metric, whatever was accepted from
\* earlier pages, and the failed request is the last one made.
C2_FetchFailureIsTerminal ==
  /\ (requests > 0 /\ ~last_request.ok) => (pc = "ret_fetch" /\ NoResults)
  /\ pc = "ret_fetch" => (requests > 0 /\ ~last_request.ok)
C2_Witness ==
  /\ pc = "ret_fetch"
  /\ requests = 2
  /\ post_count > 0

\* C3 as claimed: every returned record comes from a post dated inside
\* [start_time - time_window, start_time].
C3_InsideWindow ==
  pc \in Returned =>
    \A top \in {top_likes, top_reposts, top_replies} :
      \A k \in 1..Len(top) :
        /\ CreatedAt(top[k]) >= start_time - TimeDelta(time_window_hours)
        /\ CreatedAt(top[k]) <= start_time

\* C3, amended: every returned record comes from a post dated at or after
\* start_time - time_window; a post dated before the window start is in no
\* output.  Nothing bounds created_at from above.
C3_NotBeforeWindow ==
  pc \in Returned =>
    \A top \in {top_likes, top_reposts, top_replies} :
      \A k \in 1..Len(top) :
        CreatedAt(top[k]) >= start_time - TimeDelta(time_window_hours)
C3_Witness ==
  /\ pc = "ret_ok"
  /\ \E k \in 1..Len(top_likes) : CreatedAt(top_likes[k]) > start_time
  /\ \E k \in 1..Len(top_likes) :
       CreatedAt(top_likes[k]) = start_time - TimeDelta(time_window_hours)

\* C4 as claimed: process_timeline never raises to its caller.
C4_NeverRaises == pc \notin Raised

\* C5: the number of accepted records never exceeds max_posts, also when a
\* page holds more items than the limit that was requested.
C5_AtMostMaxPosts == post_count <= max_posts
C5_Witness ==
  /\ pc = "after_for"
  /\ post_count = max_posts
  /\ timeline.feed_len > last_request.limit
  /\ idx < timeline.feed_len

\* C6: each returned list has at most top_n records, and exactly
\* min(top_n, accepted records) when the run ended at the final return.
C6_LengthOfResults ==
  pc \in Returned =>
    \A top \in {top_likes, top_reposts, top_replies} :
      /\ Len(top) <= top_n
      /\ pc = "ret_ok" => Len(top) = Min(top_n, post_count)
C6_Witness ==
  /\ pc = "ret_ok"
  /\ post_count > top_n
  /\ Len(top_reposts) = top_n

\* C7: each returned list is in non-increasing order of its count, records
\* of equal count are in the order they were accepted, and the list is the
\* first top_n records of that ordering of all accepted records.
C7_StableDescendingTopN ==
  pc = "ret_ok" =>
    /\ IsStableTopN(top_likes, post_likes, top_n)
    /\ IsStableTopN(top_reposts, post_reposts, top_n)
    /\ IsStableTopN(top_replies, post_replies, top_n)
    /\ NonIncreasing(top_likes) /\ NonIncreasing(top_reposts) /\ NonIncreasing(top_replies)
C7_Witness ==
  /\ pc = "ret_ok"
  /\ Len(top_reposts) = 2
  /\ top_reposts[1][2] = top_reposts[2][2]
  /\ top_reposts[1] # top_reposts[2]
  /\ top_likes[1] = post_likes[2]
  /\ top_likes[1][2] > top_likes[2][2]

\* C8: an item whose thread lookup fails is accepted with count 0 in all
\* three accumulators and the loop goes on; every accepted item holds the
\* counts its own lookup returned.
C8_RecordsMatchLookups ==
  /\ Len(lookups) = post_count
  /\ Len(post_likes) = post_count
  /\ Len(post_reposts) = post_count
  /\ Len(post_replies) = post_count
  /\ \A i \in 1..Len(lookups) :
       LET th == lookups[i].thread
       IN /\ post_likes[i][3] = lookups[i].uri
          /\ post_reposts[i][3] = lookups[i].uri
          /\ post_replies[i][3] = lookups[i].uri
          /\ post_likes[i][2] = (IF th.ok THEN OrZero(th.like_count) ELSE 0)
          /\ post_reposts[i][2] = (IF th.ok THEN OrZero(th.repost_count) ELSE 0)
          /\ post_replies[i][2] = (IF th.ok THEN OrZero(th.reply_count) ELSE 0)
C8_LookupFailureKeepsItem ==
  /\ []C8_RecordsMatchLookups
  /\ [][Len(lookups') > Len(lookups) =>
          /\ pc' \in {"for", "after_for"}
          /\ post_count' = post_count + 1
          /\ SubSeq(post_likes', 1, post_count) = post_likes
          /\ SubSeq(post_reposts', 1, post_count) = post_reposts
          /\ SubSeq(post_replies', 1, post_count) = post_replies]_vars
C8_Witness ==
  /\ pc = "ret_ok"
  /\ post_count = 2
  /\ ~lookups[1].thread.ok
  /\ lookups[2].thread.ok
  /\ top_likes[1][2] = 2
  /\ top_likes[Len(top_likes)][2] = IF top_n = 1 THEN 2 ELSE 0

\* C9: once the deadline check before an item has found the deadline
\* reached, the run makes no further get_timeline or get_post_thread call,
\* processes no further item, accepts nothing more, raises nothing, and
\* returns the rankings of the records accepted before the check.
C9_TimeoutStopsTheRun ==
  /\ [][TimeoutLogged' =>
          /\ requests' = requests
          /\ lookups' = lookups
          /\ accumulators' = accumulators
          /\ pc' \in {"after_for", "while", "finish", "ret_ok"}]_vars
  /\ [](TimeoutLogged /\ pc \in Returned =>
          /\ pc = "ret_ok"
          /\ IsStableTopN(top_likes, post_likes, top_n)
          /\ IsStableTopN(top_reposts, post_reposts, top_n)
          /\ IsStableTopN(top_replies, post_replies, top_n))
C9_Witness ==
  /\ pc = "ret_ok"
  /\ TimeoutLogged
  /\ idx = 2 /\ timeline.feed_len = 2
  /\ TruthyStr(timeline.cursor)
  /\ post_count = 1 /\ max_posts > 1
  /\ Len(top_likes) = 1

\* C10 as claimed: in the paging scenario exactly two get_timeline requests
\* are made before the loop ends with 100 records accepted.
C10_TwoRequests ==
  pc = "ret_ok" => (requests = 2 /\ post_count = DefaultMaxPosts)

\* C10, amended: in the paging scenario exactly one get_timeline request is
\* made, with limit 100; its page fills max_posts and the while condition
\* ends the loop although the page came with a cursor.
C10_OneRequest ==
  pc = "ret_ok" =>
    /\ requests = 1
    /\ last_request = [limit |-> PageCap, cursor |-> NoneStr, ok |-> TRUE]
    /\ post_count = DefaultMaxPosts
C10_Witness ==
  /\ pc = "ret_ok"
  /\ post_count = DefaultMaxPosts
  /\ timeline.feed_len = PageCap
  /\ TruthyStr(cursor)
  /\ Len(top_likes) = DefaultTopN

\* ------------------------------------------------------------------------
\* C11.  The text stored for an accepted post is the post's text when that
\* has at most 50 characters (at exactly 50 nothing is appended), and
\* otherwise its first 50 characters followed by three dots, so it is never
\* longer than 53; the three metric lists hold the same stored text for
\* the same post.
\* ------------------------------------------------------------------------
C11_StoredText ==
  /\ Len(post_reposts) = Len(post_likes)
  /\ Len(post_replies) = Len(post_likes)
  /\ \A i \in 1..Len(post_likes) :
       LET orig == ItemOf(post_likes[i][3]).text
           stored == post_likes[i][1]
       IN /\ Len(orig) <= 50 => stored = orig
          /\ Len(orig) > 50 =>
               /\ Len(stored) = 53
               /\ \A k \in 1..50 : stored[k] = orig[k]
               /\ \A k \in 51..53 : stored[k] = "."
          /\ Len(stored) <= 53
          /\ post_reposts[i][1] = stored
          /\ post_replies[i][1] = stored

\* a post of exactly 50 characters and one of 51 have both been accepted
C11_Witness ==
  /\ pc = "ret_ok"
  /\ \E i, j \in 1..Len(top_likes) :
       /\ top_likes[i][3] = "at://fifty" /\ Len(top_likes[i][1]) = 50
       /\ top_likes[j][3] = "at://fiftyone" /\ Len(top_likes[j][1]) = 53
       /\ top_replies[j][1] = top_likes[j][1]

\* ------------------------------------------------------------------------
\* C12.  Once login has failed the run is over: it has returned, every
\* returned list is empty, and neither get_timeline nor get_post_thread has
\* been called.
\* ------------------------------------------------------------------------
C12_LoginFailureAborts ==
  "Failed to login to Bluesky" \in log =>
    /\ pc = "ret_login"
    /\ NoResults
    /\ requests = 0
    /\ lookups = <<>>

\* a run with both credentials whose login raised
C12_Witness ==
  /\ pc = "ret_login"
  /\ login_calls = 1
  /\ "Failed to login to Bluesky" \in log

\* ------------------------------------------------------------------------
\* C13.  What main prints is, for likes, reposts and replies in that order,
\* a header followed by one block per returned record, in the order of the
\* ranking and numbered 1..k; for a metric whose ranking is empty it prints
\* one "No posts processed" line and no block.
\* ------------------------------------------------------------------------
SectionPrinted(metric, top) ==
  LET sec == SelectSeq(console, LAMBDA c : c.metric = metric)
      blocks == SelectSeq(sec, LAMBDA c : c.kind = "block")
      nones == SelectSeq(sec, LAMBDA c : c.kind = "none")
      first == CHOOSE k \in 1..Len(sec) : sec[k].kind = "header"
  IN /\ Len(SelectSeq(sec, LAMBDA c : c.kind = "header")) = 1
     /\ \A k \in 1..Len(sec) : sec[k].kind = "block" => k > first
     /\ Len(blocks) = Len(top)
     /\ \A i \in 1..Len(blocks) :
          /\ blocks[i].rank = i
          /\ <<blocks[i].text, blocks[i].count, blocks[i].uri>> = top[i]
     /\ Len(nones) = (IF top = <<>> THEN 1 ELSE 0)

C13_ConsoleOutput ==
  pc = "exit" =>
    /\ SectionPrinted("likes", top_likes)
    /\ SectionPrinted("reposts", top_reposts)
    /\ SectionPrinted("replies", top_replies)
    /\ \A j, k \in 1..Len(console) :
         (j < k) => <<console[j].metric, console[k].metric>> \in
                      { <<"likes", "likes">>, <<"likes", "reposts">>, <<"likes", "replies">>,
                        <<"reposts", "reposts">>, <<"reposts", "replies">>,
                        <<"replies", "replies">> }

\* main has printed two ranked records per metric
C13_Witness ==
  /\ pc = "exit"
  /\ Len(top_likes) = 2
  /\ \E k \in 1..Len(console) :
       console[k].kind = "block" /\ console[k].metric = "replies" /\ console[k].rank = 2

\* ------------------------------------------------------------------------
\* C14.  Every get_timeline request asks for min(100, max_posts -
\* post_count) items, with post_count as it is when the request is made, a
\* number between 1 and 100; its cursor is None on the first request and
\* on every later one the cursor that came with the page before it.
\* ------------------------------------------------------------------------
C14_RequestArguments ==
  [][requests' = requests + 1 =>
       /\ last_request'.limit = Min(100, max_posts - post_count)
       /\ last_request'.limit >= 1
       /\ last_request'.limit <= 100
       /\ last_request'.cursor = (IF requests = 0 THEN NoneStr ELSE timeline.cursor)
       /\ requests > 0 => TruthyStr(timeline.cursor)]_vars

\* the third request of a long run: more than 100 posts are still
\* missing, so the limit is the cap, and the cursor is the one of the
\* second page, not the one of the first
C14_Witness ==
  /\ requests = 3
  /\ pc = "for" /\ idx = 0
  /\ post_count > 0
  /\ max_posts - post_count > 100
  /\ last_request = [limit |-> 100, cursor |-> "c2", ok |-> TRUE]

\* ------------------------------------------------------------------------
\* C15.  When every external call returns or raises and the clock reaches
\* the deadline, every run of process_timeline returns in the end, also
\* when get_timeline keeps returning pages with a next cursor whose items
\* are all skipped.
\* ------------------------------------------------------------------------
C15_EventuallyReturns == <>(pc \in Returned)

\* every such run ends, by returning or by raising
EventuallyEnds == <>(pc \in Returned \cup Raised)

\* a run that was kept in the loop by pages of skipped items until the
\* deadline, and returned
SkippedUntilDeadline ==
  /\ pc = "ret_ok"
  /\ requests = MaxRequests
  /\ post_count = 0
  /\ TruthyStr(cursor)
  /\ now >= deadline

\* ------------------------------------------------------------------------
\* C16.  Once get_timeline has returned a page without items, or a page
\* without next cursor, no further get_timeline request is made, and what
\* the run returns is the top-N ranking of the records accepted so far,
\* neither the result of an error nor an emptied one; the items of a page
\* without cursor are gone through before the run stops.
\* ------------------------------------------------------------------------
\* the page that came last has no items or no cursor
LastPage ==
  /\ requests > 0
  /\ last_request.ok
  /\ timeline.feed_len = 0 \/ timeline.cursor \in {NoneStr, ""}

C16_LastPageStopsPaging ==
  /\ [][LastPage => requests' = requests]_vars
  /\ [](LastPage => pc \notin {"while", "fetch", "ret_fetch"})
  /\ [](LastPage /\ pc \in Returned =>
           /\ pc = "ret_ok"
           /\ IsStableTopN(top_likes, post_likes, top_n)
           /\ IsStableTopN(top_reposts, post_reposts, top_n)
           /\ IsStableTopN(top_replies, post_replies, top_n)
           /\ Len(top_likes) = Min(top_n, post_count))
  /\ [](LastPage /\ pc \in {"finish", "ret_ok"} /\ ~TimeoutLogged /\ post_count < max_posts
           => idx = timeline.feed_len)

\* the only page had two items and no cursor; one of them was accepted and
\* is returned
C16_Witness ==
  /\ pc = "ret_ok"
  /\ requests = 1
  /\ timeline = [feed_len |-> 2, cursor |-> NoneStr]
  /\ max_posts = 2
  /\ post_count = 1
  /\ Len(top_likes) = 1

\* ------------------------------------------------------------------------
\* C17.  An item whose created_at is a string that does not parse as a
\* timestamp is skipped and the run goes on: nothing is added to the
\* accumulators, post_count stays, no lookup is made, and the for loop
\* moves to the next item of the page.
\* ------------------------------------------------------------------------
C17_UnparsableIsSkipped ==
  [][(idx' = idx + 1 /\ now < deadline /\ post'.created_at.kind = "malformed") =>
       /\ post_likes' = post_likes
       /\ post_reposts' = post_reposts
       /\ post_replies' = post_replies
       /\ post_count' = post_count
       /\ lookups' = lookups
       /\ pc' = (IF idx' < timeline.feed_len THEN "for" ELSE "after_for")]_vars

\* the first item of a page of two did not parse, and the loop is at the
\* second
C17_Witness ==
  /\ pc = "for"
  /\ timeline.feed_len = 2
  /\ idx = 1
  /\ post.created_at.kind = "malformed"
  /\ post_count = 0
  /\ lookups = <<>>

\* ------------------------------------------------------------------------
\* C18.  An item whose text or uri is empty or None is not accepted: the
\* accumulators and post_count stay as they are and no lookup is made for
\* it; every record of an accumulator or of a returned list has a
\* non-empty text and a non-empty uri.
\* ------------------------------------------------------------------------
C18_NoTextOrUriNotAccepted ==
  /\ [][(/\ idx' = idx + 1
         /\ now < deadline
         /\ post'.text \in {<<>>, NoneText} \/ post'.uri \in {"", NoneStr}) =>
          /\ post_likes' = post_likes
          /\ post_reposts' = post_reposts
          /\ post_replies' = post_replies
          /\ post_count' = post_count
          /\ lookups' = lookups]_vars
  /\ [](\A list \in {post_likes, post_reposts, post_replies,
                      top_likes, top_reposts, top_replies} :
          \A i \in 1..Len(list) :
             /\ list[i][1] \notin {<<>>, NoneText}
             /\ list[i][3] \notin {"", NoneStr})
  /\ [](\A k \in 1..Len(console) :
          console[k].kind = "block" =>
            console[k].text \notin {<<>>, NoneText} /\ console[k].uri \notin {"", NoneStr})

\* the first item of the page was accepted and the second, whose uri is
\* empty, was not
C18_Witness ==
  /\ idx = 2
  /\ post.uri = ""
  /\ post.text # <<>>
  /\ post_count = 1
  /\ Len(lookups) = 1
  /\ Len(post_likes) = 1

\* ------------------------------------------------------------------------
\* Properties of the firehose handlers
\* ------------------------------------------------------------------------
\* the positions of a text where a word starting with "#" begins
HashtagStarts(text) ==
  {i \in 1..Len(text) : text[i] = "#" /\ (i = 1 \/ text[i - 1] = " ")}

\* the created posts of a commit that hold a hashtag, in commit order
HashtagPosts(ops) ==
  SelectSeq(ops, LAMBDA op : /\ op.action = "create" /\ op.cid
                             /\ op.data.present /\ op.data.type = "app.bsky.feed.post"
                             /\ HashtagStarts(op.data.text) # {})

\* the hashtags in those posts, counted with repetition
RECURSIVE NumHashtags(_)
NumHashtags(posts) ==
  IF posts = <<>> THEN 0
  ELSE Cardinality(HashtagStarts(Head(posts).data.text)) + NumHashtags(Tail(posts))

\* the sum of the counts of a Counter
RECURSIVE SumCounts(_)
SumCounts(counter) ==
  IF counter = <<>> THEN 0 ELSE Head(counter)[2] + SumCounts(Tail(counter))

\* the handler got past its early returns
Relevant(message) == message.type = "commit" /\ message.blocks

\* the positions of the operations whose block has no '$type'
NoTypeAt(ops) ==
  {k \in 1..Len(ops) : /\ ops[k].action = "create" /\ ops[k].cid
                       /\ ops[k].data.present /\ ops[k].data.type = NoType}

\* the operations of a message the handler gets to: none when the blocks
\* are not a CAR, else those before the first block without '$type'
ReachedOps(message) ==
  IF ~message.car THEN <<>>
  ELSE IF NoTypeAt(message.ops) = {} THEN message.ops
  ELSE SubSeq(message.ops, 1,
              (CHOOSE k \in NoTypeAt(message.ops) :
                 \A j \in NoTypeAt(message.ops) : k <= j) - 1)

\* the handler got past its early returns and to its end
Completes(message) ==
  Relevant(message) /\ message.car /\ NoTypeAt(message.ops) = {}

\* ------------------------------------------------------------------------
\* C19.  In read_posts, read_tags and count_tags the outcome of the profile
\* query does not change what is done with a commit: every created post of
\* the commit that holds a hashtag is printed (read_posts, read_tags) or
\* its hashtags are counted (count_tags), whether the query returned or
\* raised, and when it raised the DID stands where the handle would.  (Of
\* a commit that makes the handler raise, these are the posts the handler
\* got to, with either outcome of the query.)
\* ------------------------------------------------------------------------
C19_LookupFailureKeepsOutput ==
  /\ [](fh_script \in {"read_posts", "read_tags"} /\ Relevant(fh_message) =>
          LET posts == HashtagPosts(ReachedOps(fh_message))
          IN /\ Len(fh_stdout) = Len(posts)
             /\ \A i \in 1..Len(posts) :
                  /\ fh_stdout[i].text = posts[i].data.text
                  /\ fh_stdout[i].author =
                       (IF fh_profile_ok THEN "alice.test" ELSE fh_message.repo))
  /\ [][fh_handled' = fh_handled + 1 /\ Relevant(fh_message') =>
          SumCounts(hashtag_counts') =
            SumCounts(hashtag_counts)
              + NumHashtags(HashtagPosts(ReachedOps(fh_message')))]_vars

\* read_tags has printed the two posts of a commit under the DID of their
\* author, the profile query having raised
C19_Witness ==
  /\ fh_script = "read_tags"
  /\ ~fh_profile_ok
  /\ Len(fh_stdout) = 2
  /\ fh_stdout[1].author = "did:plc:alice"
  /\ fh_stdout[2].hashtags = << <<"#", "A">>, <<"#", "a">> >>

\* ------------------------------------------------------------------------
\* C20.  In count_tags, when at least print_interval (10 seconds) have
\* passed since the last print, the next message given to
\* on_message_handler makes it print the top 20 hashtags and set
\* last_print_time to the time of the print, whatever the message is.
\* ------------------------------------------------------------------------
C20_AnyMessagePrints ==
  [][(fh_handled' = fh_handled + 1 /\ fh_now - last_print_time >= 10) =>
       /\ fh_stdout' # <<>>
       /\ last_print_time' = fh_now]_vars

\* C20, amended: that holds of the next message that is a commit with
\* blocks, unless its handling raises before the timer test (blocks that
\* are not a CAR, a block without '$type').  Such a commit prints the top
\* 20 of the counts that include its own hashtags: at most 20 entries of
\* the Counter, largest count first, none left out that has a larger count
\* than one printed.  A message of another type, a commit without blocks
\* and a commit that makes the handler raise print nothing and leave
\* last_print_time as it is.
C20_CommitWithBlocksPrints ==
  [][(fh_handled' = fh_handled + 1 /\ fh_now - last_print_time >= 10) =>
       IF Completes(fh_message')
       THEN /\ fh_raised' = ""
            /\ Len(fh_stdout') = 1
            /\ fh_stdout'[1].kind = "top"
            /\ LET top == fh_stdout'[1].hashtags
               IN /\ Len(top) = Min(20, Len(hashtag_counts'))
                  /\ \A k \in 1..Len(top) : \E i \in 1..Len(hashtag_counts') :
                       top[k] = hashtag_counts'[i]
                  /\ \A k \in 1..(Len(top) - 1) : top[k][2] >= top[k + 1][2]
                  /\ \A i \in 1..Len(hashtag_counts') :
                       (\A k \in 1..Len(top) : top[k] # hashtag_counts'[i]) =>
                         hashtag_counts'[i][2] <= top[Len(top)][2]
            /\ last_print_time' = fh_now
       ELSE /\ Relevant(fh_message') => fh_raised' # ""
            /\ fh_stdout' = <<>>
            /\ last_print_time' = last_print_time]_vars

\* 10 seconds after the start the second commit made count_tags print 20
\* of the 21 hashtags counted: the one counted twice first, then those
\* counted once in the order of the Counter, the last of them left out
C20_Witness ==
  /\ fh_script = "count_tags"
  /\ fh_now = 10
  /\ last_print_time = 10
  /\ fh_handled = 2
  /\ print_times = <<10>>
  /\ Len(hashtag_counts) = 21
  /\ hashtag_counts[1] = << <<"#", "b">>, 2 >>
  /\ Len(fh_stdout) = 1
  /\ Len(fh_stdout[1].hashtags) = 20
  /\ fh_stdout[1].hashtags[1] = << <<"#", "b">>, 2 >>
  /\ fh_stdout[1].hashtags[2] = << <<"#", "a">>, 1 >>
  /\ fh_stdout[1].hashtags[20] = << <<"#", "t">>, 1 >>

\* ------------------------------------------------------------------------
\* C21.  In every state the three accumulators have the same length, which
\* is post_count, and hold at every index the same text and the same uri;
\* so every record of a returned ranking is, but for its count, a record of
\* each of the three accumulators.
\* ------------------------------------------------------------------------
C21_AccumulatorsAligned ==
  /\ Len(post_likes) = post_count
  /\ Len(post_reposts) = post_count
  /\ Len(post_replies) = post_count
  /\ \A i \in 1..post_count :
       /\ post_likes[i][1] = post_reposts[i][1]
       /\ post_likes[i][1] = post_replies[i][1]
       /\ post_likes[i][3] = post_reposts[i][3]
       /\ post_likes[i][3] = post_replies[i][3]
  /\ \A top \in {top_likes, top_reposts, top_replies} :
       \A k \in 1..Len(top) :
          \A acc \in {post_likes, post_reposts, post_replies} :
             \E i \in 1..Len(acc) : acc[i][1] = top[k][1] /\ acc[i][3] = top[k][3]

\* two posts were accepted and the top one of each metric returned: the
\* one returned for likes is not the one returned for reposts
C21_Witness ==
  /\ pc = "ret_ok"
  /\ post_count = 2
  /\ top_n = 1
  /\ Len(top_likes) = 1
  /\ top_likes[1][3] # top_reposts[1][3]

\* ------------------------------------------------------------------------
\* C22.  The number of get_post_thread calls made so far is post_count,
\* whatever the calls returned: there is one call per accepted item, made
\* for an item that parsed, is not older than the window and has a text
\* and a uri; so a run makes at most max_posts of them.
\* ------------------------------------------------------------------------
C22_OneLookupPerAcceptedItem ==
  /\ Len(lookups) = post_count
  /\ Len(lookups) <= max_posts
  /\ \A i \in 1..Len(lookups) :
       /\ lookups[i].uri \notin {"", NoneStr}
       /\ LET item == ItemOf(lookups[i].uri)
          IN /\ item.created_at.kind = "aware"
             /\ item.created_at.t >= start_time - time_window_hours * 3600
             /\ item.text \notin {<<>>, NoneText}
       /\ post_likes[i][3] = lookups[i].uri

\* max_posts lookups were made, one of which failed, and the run returned
C22_Witness ==
  /\ pc = "ret_ok"
  /\ max_posts = 2
  /\ Len(lookups) = 2
  /\ ~lookups[1].thread.ok
  /\ lookups[2].thread.ok
  /\ post_count = 2

\* ------------------------------------------------------------------------
\* C23.  In count_tags two prints of the top hashtags that follow each
\* other are at least print_interval (10 seconds) apart, a print is made
\* only in a call of on_message_handler, and from one state to the next no
\* hashtag leaves the Counter and no count goes down.
\* ------------------------------------------------------------------------
C23_PrintsApartCountsGrow ==
  /\ [](\A k \in 1..(Len(print_times) - 1) : print_times[k + 1] - print_times[k] >= 10)
  /\ [][print_times' # print_times =>
          /\ fh_handled' = fh_handled + 1
          /\ fh_script' = "count_tags"
          /\ fh_message'.type = "commit"]_vars
  /\ [][/\ Len(hashtag_counts') >= Len(hashtag_counts)
        /\ \A i \in 1..Len(hashtag_counts) :
             /\ hashtag_counts'[i][1] = hashtag_counts[i][1]
             /\ hashtag_counts'[i][2] >= hashtag_counts[i][2]]_vars

\* count_tags has printed twice, the second message having raised a count
C23_Witness ==
  /\ Len(print_times) = 2
  /\ fh_handled = 2
  /\ \E i \in 1..Len(hashtag_counts) : hashtag_counts[i][2] >= 3

====
